---- MODULE Spec2Model ----
(***************************************************************************)
(* The three root components of the YouTube downloader front end:          *)
(*   App                (src/frontend/src/App.tsx)                          *)
(*   YouTubeDownloader  (src/unnamed/part_001, lines 8-113)                 *)
(*   YouTubeDownLoader  (src/unnamed/part_001, lines 121-222)               *)
(* A page hosts one of them (each is an `export default`).  The state is   *)
(* the useState cells of the mounted component, the fetches its handlers   *)
(* are awaiting, and the endpoints the back end has been asked for.        *)
(* An async handler runs in turns of the event loop: the synchronous part  *)
(* up to its `await fetch(...)`, the continuation from the settled fetch   *)
(* to `await response.json()` or `await response.blob()` (or to the end of *)
(* `finally` when something is thrown before), and the continuation from   *)
(* the settled body to the end of `finally`.  Between the turns the user's *)
(* callbacks run.                                                          *)
(***************************************************************************)
EXTENDS Integers, Sequences, FiniteSets, TLC

VARIABLES
    mounted,         \* the root component the page hosts
    url,             \* useState('')     the url field
    loading,         \* useState(false)
    message,         \* useState('')     App: the status message
    error,           \* useState('')
    videoInfo,       \* useState(null)   App: the answer of /formats
    selectedFormat,  \* useState('')     App: the value of the <select>
    downloadLink,    \* useState('')     YouTubeDownloader, YouTubeDownLoader
    a_download,      \* App: a.download of the anchor last clicked, '' before
    pending,         \* the handlers that have not ended, oldest first
    requested        \* the endpoints the page has sent a request to so far

vars == <<mounted, url, loading, message, error, videoInfo, selectedFormat,
          downloadLink, a_download, pending, requested>>

(***************************************************************************)
(* Bounds of the model.                                                    *)
(***************************************************************************)
\* handlers that may be running at once before the model stops starting
\* more (the components themselves never exceed one)
MaxPending == 2
\* longest file name the back end puts in a Content-Disposition header
MaxNameLen == 2

(***************************************************************************)
(* Text.  Strings whose characters matter (the Content-Disposition header, *)
(* file names, the status message built from a file name) are sequences of *)
(* one-character strings; '' is <<>>.  Strings that are only stored and    *)
(* shown (url, error, format_id, downloadLink) are TLA+ strings.           *)
(***************************************************************************)
null == [null |-> TRUE]

StartingDownload ==
    <<"S","t","a","r","t","i","n","g"," ","d","o","w","n","l","o","a","d",".",".",".">>

DownloadCompletePrefix ==
    <<"D","o","w","n","l","o","a","d"," ","c","o","m","p","l","e","t","e",":"," ">>

video_mp4 == <<"v","i","d","e","o",".","m","p","4">>

\* the literal text  filename="  that the regular expression starts with
RegExpLiteral == <<"f","i","l","e","n","a","m","e","=","\"">>

Min(S) == CHOOSE x \in S : \A y \in S : x <= y
Max(S) == CHOOSE x \in S : \A y \in S : x >= y

\* `.` of a JavaScript regular expression without the s flag
Dot(c) == c \notin {"\n", "\r"}

\* a position where the closing quote of /filename="(.+)"/ can be, for a
\* match that starts at i: one character or more, none a line terminator,
\* lie between the literal and the quote
ClosingQuotes(s, i) ==
    LET from == i + Len(RegExpLiteral)
    IN  { q \in (from + 1)..Len(s) :
            /\ s[q] = "\""
            /\ \A k \in from..(q - 1) : Dot(s[k]) }

\* contentDisposition.match(/filename="(.+)"/): the leftmost start that can
\* match, and from it the longest match (.+ is greedy)
match(s) ==
    LET P      == Len(RegExpLiteral)
        Starts == { i \in 1..(Len(s) - P + 1) :
                      /\ SubSeq(s, i, i + P - 1) = RegExpLiteral
                      /\ ClosingQuotes(s, i) # {} }
    IN  IF Starts = {}
        THEN null
        ELSE LET i == Min(Starts)
                 q == Max(ClosingQuotes(s, i))
             IN  [group0 |-> SubSeq(s, i, q), group1 |-> SubSeq(s, i + P, q - 1)]

\* const filenameMatch = contentDisposition && contentDisposition.match(...)
\* (a header that is null or '' is falsy and is never matched)
filenameMatch(contentDisposition) ==
    IF contentDisposition = null \/ contentDisposition.value = <<>>
    THEN null
    ELSE match(contentDisposition.value)

\* filename as it would be with filenameMatch[0], the whole match, taken
\* for the captured group
filename_wholeMatch(contentDisposition) ==
    IF filenameMatch(contentDisposition) # null
    THEN filenameMatch(contentDisposition).group0
    ELSE video_mp4

\* const filename = filenameMatch ? filenameMatch[1] : 'video.mp4'
filename(contentDisposition) ==
    IF filenameMatch(contentDisposition) # null
    THEN filenameMatch(contentDisposition).group1
    ELSE video_mp4

\* `Download complete: ${filename}`
DownloadComplete(name) == DownloadCompletePrefix \o name

(***************************************************************************)
(* The user's input and the browser's form validation.                     *)
(***************************************************************************)
\* what the user may type into the url field: nothing, text that is no URL,
\* and two video URLs
UrlInputs == {"", "youtube", "https://youtu.be/a", "https://youtu.be/b"}

\* <input type="url" required>: the form is submitted only when the field
\* is filled in (required) and holds an absolute URL (type="url")
inputValid(u) == u # "" /\ u \in {"https://youtu.be/a", "https://youtu.be/b"}

(***************************************************************************)
(* The back end and the network, as far as a handler can observe them.     *)
(***************************************************************************)
Components == {"App", "YouTubeDownloader", "YouTubeDownLoader"}

FormatsEndpoint     == "http://localhost:8000/formats"
DownloadEndpoint    == "http://localhost:8000/download"
ApiDownloadRelative == "/api/download"
ApiDownloadAbsolute == "http://localhost:8000/api/download"

\* the formats the extraction tool lists for a video, in order; identifiers
\* are unique within one list (VideoFormat, of which only format_id is read
\* by the handlers' logic)
ServerFormats(u) ==
    CASE u = "https://youtu.be/a" -> << [format_id |-> "18"], [format_id |-> "22"] >>
      [] u = "https://youtu.be/b" -> << [format_id |-> "137"] >>
      [] OTHER                    -> << >>

\* body of an OK answer of POST /formats
ServerVideoInfo(u) ==
    [title |-> IF u = "https://youtu.be/a" THEN "Video A" ELSE "Video B",
     formats |-> ServerFormats(u)]

RECURSIVE SeqsUpTo(_, _)
SeqsUpTo(S, n) ==
    IF n = 0 THEN { << >> }
    ELSE LET shorter == SeqsUpTo(S, n - 1)
         IN  shorter \cup { Append(t, c) : t \in shorter, c \in S }

\* names of the files the back end streams
FileNames == SeqsUpTo({"v"}, MaxNameLen) \ { << >> }

Attachment == <<"a","t","t","a","c","h","m","e","n","t">>

\* what response.headers.get('Content-Disposition') can return: null (no
\* header, or one the browser does not expose), a bare disposition, and the
\* filename given quoted, as a token, or in the extended form
ContentDispositions ==
    {null, [value |-> Attachment]}
      \cup { [value |-> Attachment \o <<";"," ">> \o RegExpLiteral \o n \o <<"\"">>] :
               n \in FileNames }
      \cup { [value |-> Attachment \o <<";"," ","f","i","l","e","n","a","m","e","=","v">>],
             [value |-> Attachment \o <<";"," ","f","i","l","e","n","a","m","e","*","=",
                                        "u","t","f","-","8","'","'","v">>] }


\* a property that is not there, and JavaScript's reading of a value as a
\* condition
undefined == "<undefined>"
truthy(v) == v # "" /\ v # undefined

\* fetch() rejects (no connection, CORS): a TypeError with the browser's text
Rejected == [rejected |-> TRUE, reason |-> "Failed to fetch"]

\* fetch() resolves once status and headers are in; the body follows
Answer(ok, contentDisposition) ==
    [rejected |-> FALSE, ok |-> ok, contentDisposition |-> contentDisposition]

\* response.json() of a body that is no JSON rejects with a SyntaxError;
\* response.blob() of a body cut short rejects with a TypeError
BadJson   == [readable |-> FALSE, failure |-> "Unexpected token < in JSON at position 0"]
BrokenBlob == [readable |-> FALSE, failure |-> "network error"]
Parsed(data) == [readable |-> TRUE, data |-> data]

\* the ways the fetch of POST /formats {url} can settle
FormatsResponses == { Rejected, Answer(FALSE, null), Answer(TRUE, null) }

\* the ways the fetch of POST /download {url, format_id} can settle
DownloadResponses ==
    { Rejected, Answer(FALSE, null) }
      \cup { Answer(TRUE, cd) : cd \in ContentDispositions }

\* the ways the fetch of POST /api/download {url} can settle
ApiDownloadResponses == { Rejected, Answer(FALSE, null), Answer(TRUE, null) }

ResponsesTo(request) ==
    IF request.endpoint = FormatsEndpoint THEN FormatsResponses
    ELSE IF request.endpoint = DownloadEndpoint THEN DownloadResponses
    ELSE ApiDownloadResponses

\* the ways response.json() / response.blob() of the answer can settle
BodiesOf(request) ==
    IF request.endpoint = FormatsEndpoint
    THEN { BadJson, Parsed(ServerVideoInfo(request.body.url)) }
    ELSE IF request.endpoint = DownloadEndpoint
    THEN { BrokenBlob, Parsed([type |-> "video/mp4"]) }
    ELSE IF request.response.ok
    THEN { BadJson, Parsed([downloadUrl |-> "/downloads/video.mp4"]) }
    ELSE { BadJson,
           Parsed([message |-> "Video unavailable"]),
           Parsed([detail |-> "Internal Server Error"]) }

\* data.<name> of a parsed body
prop(data, name) == IF name \in DOMAIN data THEN data[name] ELSE undefined

(***************************************************************************)
(* What the components render: which controls exist and are enabled.       *)
(***************************************************************************)
\* App: <button type="submit" disabled={loading}>
SubmitDisabled == loading

\* DownloadShown as it would be with the Download button rendered outside
\* the {videoInfo && (...)} block
DownloadShown_always == TRUE

\* App: {videoInfo && ( ... <button onClick={handleDownload}> ... )}
DownloadShown == videoInfo # null

\* DownloadDisabled as it would be without disabled={loading}
DownloadDisabled_never == FALSE

\* App: <button onClick={handleDownload} disabled={loading}>
DownloadDisabled == loading

\* YouTubeDownloader, YouTubeDownLoader: <Button disabled={loading || !url}>
ButtonDisabled == loading \/ url = ""

\* the values of the <option>s of App's <select>
OptionValues(info) == { info.formats[k].format_id : k \in 1..Len(info.formats) }


(***************************************************************************)
(* The handlers' try blocks: what is thrown, if anything, in the turn that *)
(* follows the settled fetch (r) and in the turn that follows the settled  *)
(* body (read).  null when nothing is thrown.                              *)
(***************************************************************************)
Error(text) == [message |-> text]

\* await response.json() / await response.blob()
bodyThrown(read) == IF read.readable THEN null ELSE Error(read.failure)

\* App.handleUrlSubmit from the settled fetch to `await response.json()`
handleUrlSubmitThrown(r) ==
    IF r.rejected THEN Error(r.reason)
    ELSE IF ~r.ok THEN Error("Failed to get video information")
    ELSE null

\* data.formats[0] of a body without a formats property throws a TypeError,
\* after setVideoInfo(data)
formatsThrown(data) ==
    IF "formats" \in DOMAIN data
    THEN null
    ELSE Error("Cannot read properties of undefined (reading '0')")

\* firstFormatId as it would be when the last format is preselected
firstFormatId_last(data) ==
    IF Len(data.formats) = 0 THEN ""
    ELSE IF truthy(prop(data.formats[Len(data.formats)], "format_id"))
    THEN data.formats[Len(data.formats)].format_id
    ELSE ""

\* data.formats[0]?.format_id || ''
firstFormatId(data) ==
    IF Len(data.formats) = 0 THEN ""
    ELSE IF truthy(prop(data.formats[1], "format_id"))
    THEN data.formats[1].format_id
    ELSE ""

\* App.handleDownload from the settled fetch to `await response.blob()`
handleDownloadThrown(r) ==
    IF r.rejected THEN Error(r.reason)
    ELSE IF ~r.ok THEN Error("Download failed")
    ELSE null

\* YouTubeDownloader.handleSubmit from the settled fetch to
\* `await response.json()`: the body is awaited whatever the status
YouTubeDownloaderThrown(r) ==
    IF r.rejected THEN Error(r.reason) ELSE null

\* YouTubeDownloader.handleSubmit after `await response.json()`: a non-OK
\* answer throws the server's message if it has one
YouTubeDownloaderBodyThrown(r, read) ==
    IF bodyThrown(read) # null THEN bodyThrown(read)
    ELSE IF ~r.ok THEN Error(IF truthy(prop(read.data, "message"))
                             THEN read.data.message
                             ELSE "Failed to download video")
    ELSE null

\* YouTubeDownLoaderThrown as it would be without the response.ok check
YouTubeDownLoaderThrown_noOkCheck(r) ==
    IF r.rejected THEN Error(r.reason) ELSE null

\* YouTubeDownLoader.handleSubmit from the settled fetch to
\* `await response.json()`
YouTubeDownLoaderThrown(r) ==
    IF r.rejected THEN Error(r.reason)
    ELSE IF ~r.ok THEN Error("Failed to download video")
    ELSE null

\* err.message || fallback
messageOr(err, fallback) == IF truthy(err.message) THEN err.message ELSE fallback

\* finallyLoading as it would be with setLoading(false) as the last
\* statement of the try block instead of in finally
finallyLoading_tryOnly(thrown) == thrown # null

\* finally { setLoading(false) }: loading after the handler, whatever was
\* thrown
finallyLoading(thrown) == FALSE

Without(seq, i) == SubSeq(seq, 1, i - 1) \o SubSeq(seq, i + 1, Len(seq))

\* the i-th handler is at `await fetch(...)` and the fetch has settled
Fetched(i) ==
    /\ i \in DOMAIN pending
    /\ pending[i].awaits = "fetch"
    /\ pending[i].response # null

\* the i-th handler is at `await response.json()` / `await response.blob()`
\* and the body has settled
BodyRead(i) ==
    /\ i \in DOMAIN pending
    /\ pending[i].awaits = "body"
    /\ pending[i].read # null

(***************************************************************************)
(* The initial state: a page that has just mounted one of the components.  *)
(***************************************************************************)
Fresh ==
    /\ url = ""
    /\ loading = FALSE
    /\ message = << >>
    /\ error = ""
    /\ videoInfo = null
    /\ selectedFormat = ""
    /\ downloadLink = ""
    /\ a_download = << >>
    /\ pending = << >>

Init ==
    /\ mounted \in Components
    /\ requested = {}
    /\ Fresh

\* The page is loaded again, with the same or another of the components:
\* state and running handlers of the old page are gone.
Mount(c) ==
    /\ mounted' = c
    /\ url' = ""
    /\ loading' = FALSE
    /\ message' = << >>
    /\ error' = ""
    /\ videoInfo' = null
    /\ selectedFormat' = ""
    /\ downloadLink' = ""
    /\ a_download' = << >>
    /\ pending' = << >>
    /\ UNCHANGED requested

(***************************************************************************)
(* The user.                                                               *)
(***************************************************************************)
\* onChange={(e) => setUrl(e.target.value)}: the field is never disabled
setUrl(u) ==
    /\ url' = u
    /\ UNCHANGED <<mounted, loading, message, error, videoInfo, selectedFormat,
                   downloadLink, a_download, pending, requested>>

\* App: <select onChange={(e) => setSelectedFormat(e.target.value)}>, shown
\* with videoInfo and never disabled
setSelectedFormat(f) ==
    /\ mounted = "App"
    /\ videoInfo # null
    /\ f \in OptionValues(videoInfo)
    /\ selectedFormat' = f
    /\ UNCHANGED <<mounted, url, loading, message, error, videoInfo,
                   downloadLink, a_download, pending, requested>>

(***************************************************************************)
(* The network.                                                            *)
(***************************************************************************)
\* the fetch of the i-th handler settles: it rejects, or status and headers
\* have arrived
fetchSettles(i) ==
    /\ i \in DOMAIN pending
    /\ pending[i].awaits = "fetch"
    /\ pending[i].response = null
    /\ \E r \in ResponsesTo(pending[i]) :
           pending' = [pending EXCEPT ![i].response = r]
    /\ UNCHANGED <<mounted, url, loading, message, error, videoInfo,
                   selectedFormat, downloadLink, a_download, requested>>

\* the body the i-th handler awaits settles: it has arrived and is read, or
\* the read fails
bodySettles(i) ==
    /\ i \in DOMAIN pending
    /\ pending[i].awaits = "body"
    /\ pending[i].read = null
    /\ \E b \in BodiesOf(pending[i]) :
           pending' = [pending EXCEPT ![i].read = b]
    /\ UNCHANGED <<mounted, url, loading, message, error, videoInfo,
                   selectedFormat, downloadLink, a_download, requested>>

fetch(handler, endpoint, body) ==
    /\ Len(pending) < MaxPending
    /\ pending' = Append(pending, [handler |-> handler, endpoint |-> endpoint,
                                   body |-> body, awaits |-> "fetch",
                                   response |-> null, read |-> null])
    /\ requested' = requested \cup {endpoint}

\* the i-th handler calls response.json() / response.blob() and awaits it
awaitBody(i) == pending' = [pending EXCEPT ![i].awaits = "body"]

(***************************************************************************)
(* App                                                                     *)
(***************************************************************************)
\* the form is submitted: handleUrlSubmit up to `await fetch`
handleUrlSubmit ==
    /\ mounted = "App"
    /\ ~SubmitDisabled
    /\ inputValid(url)
    /\ loading' = TRUE
    /\ message' = << >>
    /\ error' = ""
    /\ videoInfo' = null
    /\ fetch("handleUrlSubmit", FormatsEndpoint, [url |-> url])
    /\ UNCHANGED <<mounted, url, selectedFormat, downloadLink, a_download>>

\* handleUrlSubmit from the settled fetch to `await response.json()`, or to
\* the end of `finally` when the fetch rejected or the status is not OK
handleUrlSubmitAfterFetch(i) ==
    /\ Fetched(i)
    /\ pending[i].handler = "handleUrlSubmit"
    /\ LET thrown == handleUrlSubmitThrown(pending[i].response)
       IN  IF thrown = null
           THEN /\ awaitBody(i)
                /\ UNCHANGED <<error, loading>>
           ELSE /\ error' = messageOr(thrown, "Something went wrong")
                /\ loading' = finallyLoading(thrown)
                /\ pending' = Without(pending, i)
    /\ UNCHANGED <<mounted, url, message, videoInfo, selectedFormat,
                   downloadLink, a_download, requested>>

\* handleUrlSubmit from the settled response.json() to the end of `finally`
handleUrlSubmitAfterJson(i) ==
    /\ BodyRead(i)
    /\ pending[i].handler = "handleUrlSubmit"
    /\ LET read    == pending[i].read
           thrown1 == bodyThrown(read)
           thrown  == IF thrown1 # null THEN thrown1
                      ELSE formatsThrown(read.data)
       IN  /\ videoInfo' = IF thrown1 = null THEN read.data ELSE videoInfo
           /\ selectedFormat' = IF thrown = null THEN firstFormatId(read.data)
                                ELSE selectedFormat
           /\ error' = IF thrown # null
                       THEN messageOr(thrown, "Something went wrong")
                       ELSE error
           /\ loading' = finallyLoading(thrown)
    /\ pending' = Without(pending, i)
    /\ UNCHANGED <<mounted, url, message, downloadLink, a_download, requested>>

\* the Download button is clicked: handleDownload up to `await fetch`
handleDownload ==
    /\ mounted = "App"
    /\ DownloadShown
    /\ ~DownloadDisabled
    /\ loading' = TRUE
    /\ message' = StartingDownload
    /\ fetch("handleDownload", DownloadEndpoint,
             [url |-> url, format_id |-> selectedFormat])
    /\ UNCHANGED <<mounted, url, error, videoInfo, selectedFormat, downloadLink,
                   a_download>>

\* handleDownload from the settled fetch to `await response.blob()` (the
\* filename is taken from the header on the way), or to the end of `finally`
\* when the fetch rejected or the status is not OK
handleDownloadAfterFetch(i) ==
    /\ Fetched(i)
    /\ pending[i].handler = "handleDownload"
    /\ LET thrown == handleDownloadThrown(pending[i].response)
       IN  IF thrown = null
           THEN /\ awaitBody(i)
                /\ UNCHANGED <<error, loading>>
           ELSE /\ error' = messageOr(thrown, "Download failed")
                /\ loading' = finallyLoading(thrown)
                /\ pending' = Without(pending, i)
    /\ UNCHANGED <<mounted, url, message, videoInfo, selectedFormat,
                   downloadLink, a_download, requested>>

\* handleDownload from the settled response.blob() to the end of `finally`
handleDownloadAfterBlob(i) ==
    /\ BodyRead(i)
    /\ pending[i].handler = "handleDownload"
    /\ LET thrown == bodyThrown(pending[i].read)
           name   == filename(pending[i].response.contentDisposition)
       IN  /\ a_download' = IF thrown = null THEN name ELSE a_download
           /\ message' = IF thrown = null THEN DownloadComplete(name)
                         ELSE message
           /\ error' = IF thrown # null THEN messageOr(thrown, "Download failed")
                       ELSE error
           /\ loading' = finallyLoading(thrown)
    /\ pending' = Without(pending, i)
    /\ UNCHANGED <<mounted, url, videoInfo, selectedFormat, downloadLink,
                   requested>>

(***************************************************************************)
(* YouTubeDownloader and YouTubeDownLoader                                 *)
(***************************************************************************)
\* the form is submitted: handleSubmit up to `await fetch`
handleSubmit(endpoint) ==
    /\ ~ButtonDisabled
    /\ inputValid(url)
    /\ loading' = TRUE
    /\ error' = ""
    /\ downloadLink' = ""
    /\ fetch("handleSubmit", endpoint, [url |-> url])
    /\ UNCHANGED <<mounted, url, message, videoInfo, selectedFormat, a_download>>

YouTubeDownloaderSubmit ==
    /\ mounted = "YouTubeDownloader"
    /\ handleSubmit(ApiDownloadRelative)

YouTubeDownLoaderSubmit ==
    /\ mounted = "YouTubeDownLoader"
    /\ handleSubmit(ApiDownloadAbsolute)

\* handleSubmit from the settled fetch to `await response.json()`, or to the
\* end of `finally` when something is thrown before
handleSubmitAfterFetch(i, thrown) ==
    /\ pending[i].handler = "handleSubmit"
    /\ IF thrown = null
       THEN /\ awaitBody(i)
            /\ UNCHANGED <<error, loading>>
       ELSE /\ error' = thrown.message
            /\ loading' = finallyLoading(thrown)
            /\ pending' = Without(pending, i)
    /\ UNCHANGED <<mounted, url, message, videoInfo, selectedFormat,
                   downloadLink, a_download, requested>>

\* handleSubmit from the settled response.json() to the end of `finally`
handleSubmitAfterJson(i, thrown) ==
    /\ pending[i].handler = "handleSubmit"
    /\ downloadLink' = IF thrown = null
                       THEN prop(pending[i].read.data, "downloadUrl")
                       ELSE downloadLink
    /\ error' = IF thrown # null THEN thrown.message ELSE error
    /\ loading' = finallyLoading(thrown)
    /\ pending' = Without(pending, i)
    /\ UNCHANGED <<mounted, url, message, videoInfo, selectedFormat, a_download,
                   requested>>

YouTubeDownloaderAfterFetch(i) ==
    /\ mounted = "YouTubeDownloader"
    /\ Fetched(i)
    /\ handleSubmitAfterFetch(i, YouTubeDownloaderThrown(pending[i].response))

YouTubeDownloaderAfterJson(i) ==
    /\ mounted = "YouTubeDownloader"
    /\ BodyRead(i)
    /\ handleSubmitAfterJson(i, YouTubeDownloaderBodyThrown(pending[i].response,
                                                            pending[i].read))

YouTubeDownLoaderAfterFetch(i) ==
    /\ mounted = "YouTubeDownLoader"
    /\ Fetched(i)
    /\ handleSubmitAfterFetch(i, YouTubeDownLoaderThrown(pending[i].response))

YouTubeDownLoaderAfterJson(i) ==
    /\ mounted = "YouTubeDownLoader"
    /\ BodyRead(i)
    /\ handleSubmitAfterJson(i, bodyThrown(pending[i].read))

(***************************************************************************)
(* Specifications                                                          *)
(***************************************************************************)
\* a turn of the i-th handler
Resume(i) ==
    \/ handleUrlSubmitAfterFetch(i)
    \/ handleUrlSubmitAfterJson(i)
    \/ handleDownloadAfterFetch(i)
    \/ handleDownloadAfterBlob(i)
    \/ YouTubeDownloaderAfterFetch(i)
    \/ YouTubeDownloaderAfterJson(i)
    \/ YouTubeDownLoaderAfterFetch(i)
    \/ YouTubeDownLoaderAfterJson(i)

Next ==
    \/ \E c \in Components : Mount(c)
    \/ \E u \in UrlInputs : setUrl(u)
    \/ \E f \in {"18", "22", "137"} : setSelectedFormat(f)
    \/ handleUrlSubmit
    \/ handleDownload
    \/ YouTubeDownloaderSubmit
    \/ YouTubeDownLoaderSubmit
    \/ \E i \in 1..Len(pending) : fetchSettles(i)
    \/ \E i \in 1..Len(pending) : bodySettles(i)
    \/ \E i \in 1..Len(pending) : handleUrlSubmitAfterFetch(i)
    \/ \E i \in 1..Len(pending) : handleUrlSubmitAfterJson(i)
    \/ \E i \in 1..Len(pending) : handleDownloadAfterFetch(i)
    \/ \E i \in 1..Len(pending) : handleDownloadAfterBlob(i)
    \/ \E i \in 1..Len(pending) : YouTubeDownloaderAfterFetch(i)
    \/ \E i \in 1..Len(pending) : YouTubeDownloaderAfterJson(i)
    \/ \E i \in 1..Len(pending) : YouTubeDownLoaderAfterFetch(i)
    \/ \E i \in 1..Len(pending) : YouTubeDownLoaderAfterJson(i)

Spec == Init /\ [][Next]_vars

\* The network is assumed to settle every fetch and every read of a body;
\* the event loop runs a continuation whose promise has settled.
FairSpec ==
    /\ Spec
    /\ WF_vars(\E i \in 1..Len(pending) : fetchSettles(i))
    /\ WF_vars(\E i \in 1..Len(pending) : bodySettles(i))
    /\ WF_vars(\E i \in 1..Len(pending) : Resume(i))

(***************************************************************************)
(* Properties                                                              *)
(***************************************************************************)
Waiting == 1..Len(pending)

IsDownloadRequest(i) == pending[i].endpoint = DownloadEndpoint

\* the exchange of handler p failed: the fetch rejected, the status is not
\* OK, or the body could not be read
Failed(p) ==
    IF p.response.rejected THEN TRUE
    ELSE IF ~p.response.ok THEN TRUE
    ELSE p.read # null /\ ~p.read.readable

\* the i-th handler takes a turn and ends in it
Ends(i) == Resume(i) /\ Len(pending') < Len(pending)

\* C1: no request is ever sent whose body carries an empty or malformed url
\* (every request a handler is waiting on was sent with a url the url field
\* accepts).
C1_NoRequestWithBadUrl ==
    \A i \in Waiting : inputValid(pending[i].body.url)

\* The filename parameter of a Content-Disposition header, read as the
\* header is written: the text between  filename="  and the quote that
\* closes it; null when the header is absent or has no such parameter.
HeaderFilename(cd) ==
    IF cd = null THEN null
    ELSE LET s      == cd.value
             P      == Len(RegExpLiteral)
             Starts == { i \in 1..(Len(s) - P + 1) :
                           SubSeq(s, i, i + P - 1) = RegExpLiteral }
         IN  IF Starts = {} THEN null
             ELSE LET from   == Min(Starts) + P
                      Quotes == { q \in from..Len(s) : s[q] = "\"" }
                  IN  IF Quotes = {} \/ Min(Quotes) = from THEN null
                      ELSE [name |-> SubSeq(s, from, Min(Quotes) - 1)]

\* C2: when handleDownload completes on an OK /download response, the file
\* is saved (a.download) and reported (message) under the filename of the
\* response's Content-Disposition header, and under 'video.mp4' only when the
\* header is absent or has no filename="..." parameter.
C2_SavedUnderHeaderFilename ==
    [][ \A i \in Waiting :
          (handleDownloadAfterBlob(i) /\ ~Failed(pending[i])) =>
             LET given == HeaderFilename(pending[i].response.contentDisposition)
                 name  == IF given = null THEN video_mp4 ELSE given.name
             IN  /\ a_download' = name
                 /\ message' = DownloadCompletePrefix \o name ]_vars

\* a file has been saved under a name the header gave
C2_Witness ==
    /\ a_download = <<"v", "v">>
    /\ message = DownloadCompletePrefix \o <<"v", "v">>

\* C3: every completed handleUrlSubmit for a well-formed URL ends in one of
\* two outcomes: the exchange succeeded, and videoInfo is the returned,
\* non-empty format list, selectedFormat the identifier of its first format
\* and error empty; or it failed, and error is non-empty and videoInfo null
\* (no format list, no Download button).
C3_LookupOutcome ==
    [][ \A i \in Waiting :
          ( /\ Ends(i)
            /\ pending[i].handler = "handleUrlSubmit"
            /\ inputValid(pending[i].body.url) ) =>
             LET p == pending[i]
             IN  IF ~Failed(p)
                 THEN /\ videoInfo' = p.read.data
                      /\ Len(videoInfo'.formats) > 0
                      /\ selectedFormat' = videoInfo'.formats[1].format_id
                      /\ error' = ""
                 ELSE /\ error' # ""
                      /\ videoInfo' = null
                      /\ ~DownloadShown' ]_vars

\* a lookup of a video with two formats has succeeded
C3_Witness ==
    /\ mounted = "App"
    /\ ~loading
    /\ videoInfo = ServerVideoInfo("https://youtu.be/a")
    /\ selectedFormat = "18"
    /\ error = ""

\* the text each handler throws by itself on a non-OK status
HandlerText(handler) ==
    IF handler = "handleUrlSubmit" THEN "Failed to get video information"
    ELSE IF handler = "handleDownload" THEN "Download failed"
    ELSE "Failed to download video"

\* C4 as stated: every failure ends the handler with one generic, non-empty
\* error message that depends neither on the kind of failure nor on what
\* the server sent, and no retry request is sent.
C4_OneGenericError ==
    [][ \A i \in Waiting :
          (Ends(i) /\ Failed(pending[i])) =>
             /\ error' = HandlerText(pending[i].handler)
             /\ pending' = Without(pending, i)
             /\ requested' = requested ]_vars

\* the text the runtime or the server supplies for a failure, where the
\* handler shows it
SuppliedText(component, p) ==
    IF p.response.rejected THEN {p.response.reason}
    ELSE IF component = "YouTubeDownloader"
         THEN IF ~p.read.readable THEN {p.read.failure}
              ELSE {prop(p.read.data, "message")} \ {"", undefined}
    ELSE IF p.response.ok THEN {p.read.failure}
    ELSE {}

\* C4 as amended: every failure ends the handler with a non-empty error
\* message displayed, loading false and no retry request sent; the message
\* is the text the runtime or the server supplied for the failure when
\* there is one to show, and the handler's fixed text otherwise.
C4_FailureShowsThrownMessage ==
    [][ \A i \in Waiting :
          (Ends(i) /\ Failed(pending[i])) =>
             LET supplied == SuppliedText(mounted, pending[i])
             IN  /\ error' # ""
                 /\ IF supplied # {} THEN error' \in supplied
                    ELSE error' = HandlerText(pending[i].handler)
                 /\ ~loading'
                 /\ pending' = Without(pending, i)
                 /\ requested' = requested ]_vars

\* a handler has ended on a rejected fetch and shows the browser's text
C4_Witness ==
    /\ ~loading
    /\ pending = << >>
    /\ error = "Failed to fetch"

\* C5: every POST /download request carries a non-empty format_id that is
\* the identifier of one of the formats of the list the last successful
\* /formats response returned (held in videoInfo); none is sent before a
\* successful lookup.
C5_DownloadFormatFromList ==
    \A i \in Waiting :
        IsDownloadRequest(i) =>
            /\ videoInfo # null
            /\ videoInfo \in { ServerVideoInfo(u) : u \in UrlInputs }
            /\ pending[i].body.format_id # ""
            /\ pending[i].body.format_id \in OptionValues(videoInfo)

\* a download of a format the user picked from the list is under way
C5_Witness ==
    \E i \in Waiting :
        /\ IsDownloadRequest(i)
        /\ pending[i].body.format_id = "22"

\* C6: the download requests of the repository's components use one
\* contract: stream-back (POST /download) or link-back (POST /api/download),
\* never both.
C6_OneDownloadContract ==
    ~ /\ DownloadEndpoint \in requested
      /\ requested \cap {ApiDownloadRelative, ApiDownloadAbsolute} # {}

\* C7: at most one request is in flight at any time, and while one is
\* (loading is true) no submit or Download click can start a handler.
C7_OneRequestInFlight ==
    /\ Len(pending) <= 1
    /\ pending # << >> => loading
    /\ loading => ~ENABLED (\/ handleUrlSubmit
                            \/ handleDownload
                            \/ YouTubeDownloaderSubmit
                            \/ YouTubeDownLoaderSubmit)

\* a download awaits its body while a valid url is in the field and the
\* Download button is rendered
C7_Witness ==
    /\ Len(pending) = 1
    /\ IsDownloadRequest(1)
    /\ pending[1].awaits = "body"
    /\ DownloadShown
    /\ inputValid(url)

\* C8: loading is true exactly while a handler has started and not ended,
\* and every handler that started sets it back to false, however its
\* request (the fetch and the read of the body) settles.
C8_LoadingEnds ==
    /\ [](loading <=> pending # << >>)
    /\ loading ~> ~loading

\* a handler has ended on a body that could not be read, and loading is
\* false again
C8_Witness ==
    /\ ~loading
    /\ pending = << >>
    /\ error = BrokenBlob.failure

\* C9: the url of every POST /download request is the url for which the
\* displayed format list was fetched, and its format_id names a format that
\* /formats returned for that url.
C9_DownloadUrlMatchesList ==
    \A i \in Waiting :
        IsDownloadRequest(i) =>
            /\ videoInfo = ServerVideoInfo(pending[i].body.url)
            /\ pending[i].body.format_id \in
                   OptionValues(ServerVideoInfo(pending[i].body.url))

\* C10: while no handler of App is running, a status message and an error
\* are not both displayed.
C10_MessageXorError ==
    (mounted = "App" /\ pending = << >>) => ~(message # << >> /\ error # "")

====
